---- MODULE Spec2Model ----
(***************************************************************************)
(* keyswarm, gpg_handler.py: the layer between the application and the     *)
(* gpg binary.  The model covers get_binary (memoised binary resolution),  *)
(* decrypt, encrypt, get_recipients_from_gpg_id, write_gpg_id_file and     *)
(* recursive_reencrypt, with the gpg processes as a nondeterministic       *)
(* environment.                                                            *)
(*                                                                         *)
(* Abstractions.                                                           *)
(*  - A byte stream printed by gpg is a sequence of lines, a line a        *)
(*    sequence of tokens; a token is one of the phrases the code matches   *)
(*    or "other" (any text holding none of them).  re.match(b".*X.*", s)   *)
(*    anchors at offset 0 and "." does not match a newline, so it sees the *)
(*    first line of s only.                                                *)
(*  - Cleartext is a sequence of bytes over a few values; str is a sequence of *)
(*    code points; bytes.decode('utf-8') and str.encode() are computed.    *)
(*  - A ciphertext is the record of what it encrypts and to whom; binary   *)
(*    ciphertext bytes hold none of the matched phrases.                   *)
(*  - A path is a directory (sequence of names) and a file name (sequence  *)
(*    of characters).                                                      *)
(***************************************************************************)
EXTENDS Integers, Sequences, FiniteSets, TLC

VARIABLES
    fs,       \* the file system: file path -> content
    fs0,      \* fs when the operation under study started
    dirs,     \* the directories that exist
    env,      \* what `gpg --version` and `gpg2 --version` answer
    cache,    \* the lru_cache of get_binary: "none" or the cached binary
    log,      \* every process spawned (or whose spawn was attempted), in order
    call,     \* the arguments of the outer recursive_reencrypt call
    stack,    \* the frames of recursive_reencrypt, innermost last
    status,   \* "idle", "running", "returned", "raised"
    errors,   \* number of decrypt/encrypt calls that raised
    nops,     \* operations performed (operation-sequence specification)
    inp,      \* the input drawn for a pure function
    ret       \* the outcome of the last operation

vars == <<fs, fs0, dirs, env, cache, log, call, stack, status, errors, nops, inp, ret>>

---------------------------------------------------------------------------
(* Bounds *)

MaxDepth == 2
MaxOps == 2
MaxTokens == 2
MaxLines == 2
MaxIds == 2
MaxIdLen == 1

---------------------------------------------------------------------------
(* Byte streams printed by gpg *)

\* the phrases decrypt looks for
DecryptTokens == {"cant_open", "no_such_file", "is_a_directory", "no_valid_openpgp",
                  "no_secret_key"}

SeqsUpTo(S, n) == UNION {[1..k -> S] : k \in 0..n}

\* the text up to the first newline
FirstLine(stream) == IF stream = <<>> THEN <<>> ELSE stream[1]

Has(line, tok) == \E i \in 1..Len(line) : line[i] = tok

HasThen(line, a, b) ==
    \E i \in 1..Len(line) : \E j \in (i + 1)..Len(line) : line[i] = a /\ line[j] = b

\* re_match(b".*<tok>.*", stream)
re_match(stream, tok) == Has(FirstLine(stream), tok)

\* re_match(b".*<a>.*<b>.*", stream)
re_match2(stream, a, b) == HasThen(FirstLine(stream), a, b)

---------------------------------------------------------------------------
(* bytes <-> str *)

\* the cleartexts tried: empty, ASCII, a two-byte character, a lone continuation
\* byte (not UTF-8)
SampleTexts == {<<>>, <<65>>, <<195, 169>>, <<169>>}

RECURSIVE utf8_decode(_)
\* bytes.decode('utf-8') on one- and two-byte sequences (every byte of SampleTexts
\* is below 224): [ok, cps]
utf8_decode(b) ==
    IF b = <<>> THEN [ok |-> TRUE, cps |-> <<>>]
    ELSE IF b[1] < 128
      THEN LET r == utf8_decode(Tail(b))
           IN  [ok |-> r.ok, cps |-> <<b[1]>> \o r.cps]
    ELSE IF b[1] \in 194..223 /\ Len(b) >= 2 /\ b[2] \in 128..191
      THEN LET r == utf8_decode(Tail(Tail(b)))
           IN  [ok |-> r.ok, cps |-> <<(b[1] - 192) * 64 + (b[2] - 128)>> \o r.cps]
    ELSE [ok |-> FALSE, cps |-> <<>>]

RECURSIVE utf8_encode(_)
\* str.encode() on code points below 2048
utf8_encode(cps) ==
    IF cps = <<>> THEN <<>>
    ELSE IF cps[1] < 128 THEN <<cps[1]>> \o utf8_encode(Tail(cps))
    ELSE <<192 + (cps[1] \div 64), 128 + (cps[1] % 64)>> \o utf8_encode(Tail(cps))

---------------------------------------------------------------------------
(* decrypt: the classification of what the gpg process printed *)

Result(kind, val) == [kind |-> kind, val |-> val]

\* the patterns tried in the order of list_packets, with its bare "can't open"
ClassifyDocOrder(stderr) ==
    IF re_match2(stderr, "cant_open", "no_such_file") THEN "FileNotFound"
    ELSE IF re_match(stderr, "cant_open") THEN "FileNotFound"
    ELSE IF re_match(stderr, "is_a_directory") THEN "NotAFile"
    ELSE IF re_match(stderr, "no_valid_openpgp") THEN "InvalidCiphertext"
    ELSE IF re_match(stderr, "no_secret_key") THEN "NoSecretKey"
    ELSE "UnknownBackendError"

\* lines 110-118: the exception decrypt raises when stdout is empty
\*   ValueError('no secret key')               NoSecretKey
\*   FileNotFoundError                         FileNotFound
\*   ValueError('file is a directory')         NotAFile
\*   ValueError('no valid openpgp data found') InvalidCiphertext
\*   Exception('unkown gpg error: ...')        UnknownBackendError
Classify(stderr) ==
    IF re_match(stderr, "no_secret_key") THEN "NoSecretKey"
    ELSE IF re_match2(stderr, "cant_open", "no_such_file") THEN "FileNotFound"
    ELSE IF re_match(stderr, "is_a_directory") THEN "NotAFile"
    ELSE IF re_match(stderr, "no_valid_openpgp") THEN "InvalidCiphertext"
    ELSE "UnknownBackendError"

\* lines 105-118: the outcome of decrypt given what the process printed
decrypt_result(out, utf8) ==
    IF out.stdout # <<>>
      THEN IF utf8
             THEN LET d == utf8_decode(out.stdout)
                  IN  IF d.ok THEN Result("text", d.cps)
                      ELSE Result("UnicodeDecodeError", <<>>)
             ELSE Result("bytes", out.stdout)
      ELSE Result(Classify(out.stderr), <<>>)

IsError(r) == r.kind \notin {"text", "bytes", "none", "list"}

\* the last operation: its name, its outcome (kind, val), the recipients and the
\* utf8 flag it was given, how many processes it spawned, whether it wrote its destination, and
\* whether it was a decrypt whose gpg process had the secret key and no fault
NoRet == [op |-> "none", kind |-> "none", val |-> <<>>, rcpts |-> <<>>, utf8 |-> FALSE,
          nspawn |-> 0, wrote |-> FALSE, clean |-> FALSE]

---------------------------------------------------------------------------
(* Optional arguments, paths, processes *)

\* None is <<>>, a given value x is <<x>>; `if gpg_home:` tests for a given value
None == <<>>

Some(x) == <<x>>

Path(dir, name) == [dir |-> dir, name |-> name]

NoFile == Path(<<>>, <<>>)

NameA == <<"a", ".", "g", "p", "g">>

NameB == <<"b", ".", "g", "p", "g">>

IdName == <<".", "g", "p", "g", "-", "i", "d">>

DotGpg == <<".", "g", "p", "g">>

\* one Popen: the binary, the operation, and the arguments that vary
Proc(op, bin, home, extra, file, rcpts) ==
    [op |-> op, bin |-> bin, home |-> home, extra |-> extra, file |-> file,
     rcpts |-> rcpts]

VersionQuery(bin) == Proc("version", bin, None, <<>>, NoFile, <<>>)

---------------------------------------------------------------------------
(* get_binary *)

\* What `<binary> --version` does: "missing" (no such executable: Popen raises
\* FileNotFoundError), "empty" (nothing on stdout: splitlines()[0] raises
\* IndexError), "v1" / "v2" (first line 'gpg (GnuPG) 1.' / '2.'), "other" (a first
\* line the pattern does not match).
Answers == {"missing", "empty", "v1", "v2", "other"}

Resolved(bin, spawned) == [out |-> "return", kind |-> "none", bin |-> bin, cache |-> bin,
                           spawned |-> spawned]

Failed(out, kind, spawned) == [out |-> out, kind |-> kind, bin |-> "none", cache |-> "none",
                               spawned |-> spawned]

\* the body of get_binary without the lru_cache decorator
get_binary_uncached(c, e) ==
    IF e.gpg = "missing" THEN Failed("raise", "FileNotFound", <<>>)
    ELSE IF e.gpg = "empty" THEN Failed("raise", "IndexError", <<VersionQuery("gpg")>>)
    ELSE IF e.gpg = "v2" THEN Resolved("gpg", <<VersionQuery("gpg")>>)
    ELSE IF e.gpg = "v1"
      THEN IF e.gpg2 = "missing"
             THEN Failed("raise", "FileNotFound", <<VersionQuery("gpg")>>)
           ELSE IF e.gpg2 = "empty"
             THEN Failed("raise", "IndexError", <<VersionQuery("gpg"), VersionQuery("gpg2")>>)
           ELSE IF e.gpg2 = "v2"
             THEN Resolved("gpg2", <<VersionQuery("gpg"), VersionQuery("gpg2")>>)
           ELSE Failed("exit", "SystemExit", <<VersionQuery("gpg"), VersionQuery("gpg2")>>)
    ELSE Failed("exit", "SystemExit", <<VersionQuery("gpg")>>)

\* lines 15-50: lru_cache(maxsize=1) keeps a returned value; an exception (and
\* sys_exit is one) is not cached
get_binary(c, e) ==
    IF c # "none" THEN Resolved(c, <<>>) ELSE get_binary_uncached(c, e)

---------------------------------------------------------------------------
(* decrypt and encrypt as whole calls *)

\* what a call did: its outcome, the cache after it, the processes it spawned,
\* and the content it wrote to its destination (None: nothing written)
Done(res, c, spawned, write) == [res |-> res, cache |-> c, spawned |-> spawned, write |-> write]

\* lines 94-118; out is what the gpg process printed
decrypt(c, e, file, gpg_home, additional_parameter, utf8, out) ==
    LET gb == get_binary(c, e)
        extra == IF additional_parameter = None THEN <<>> ELSE additional_parameter[1]
    IN  IF gb.out # "return" THEN Done(Result(gb.kind, <<>>), gb.cache, gb.spawned, None)
        ELSE Done(decrypt_result(out, utf8), gb.cache,
                  gb.spawned \o <<Proc("decrypt", gb.bin, gpg_home, extra, file, <<>>)>>,
                  None)

\* What gpg --encrypt prints on stdout (stderr=STDOUT merges the diagnostics in):
\* lines of text, then the ciphertext if one was made.
Printed(diag, enc, clear, rcpts) == [diag |-> diag, enc |-> enc, clear |-> clear, rcpts |-> rcpts]

Ciphertext(clear, rcpts) == Printed(<<>>, TRUE, clear, rcpts)

IsCiphertext(content) == content.enc /\ content.diag = <<>>

\* lines 139-161: the command is built (get_binary), run, and its output
\* looked at and written; out is what the gpg process printed
encrypt_run(c, e, clear_text, list_of_recipients, path_to_file, gpg_home, out) ==
    LET gb == get_binary(c, e)
        sp == gb.spawned \o
              <<Proc("encrypt", gb.bin, gpg_home, <<>>,
                     IF path_to_file = None THEN NoFile ELSE path_to_file[1],
                     list_of_recipients)>>
    IN  IF gb.out # "return" THEN Done(Result(gb.kind, <<>>), gb.cache, gb.spawned, None)
        ELSE IF re_match(out.diag, "no_such_file")
          THEN Done(Result("FileNotFound", <<>>), gb.cache, sp, None)
        ELSE IF re_match(out.diag, "no_public_key")
          THEN Done(Result("NoPublicKey", <<>>), gb.cache, sp, None)
        ELSE IF path_to_file # None
          THEN Done(Result("none", <<>>), gb.cache, sp, Some(out))
        ELSE Done(Result("bytes", <<out>>), gb.cache, sp, None)

\* encrypt with the binary resolved before the arguments are checked
encrypt_resolve_first(c, e, dirset, clear_text, list_of_recipients, path_to_file, gpg_home, out) ==
    LET gb == get_binary(c, e)
        r  == encrypt_run(gb.cache, e, clear_text, list_of_recipients, path_to_file,
                          gpg_home, out)
    IN  IF gb.out # "return" THEN Done(Result(gb.kind, <<>>), gb.cache, gb.spawned, None)
        ELSE IF list_of_recipients = <<>>
          THEN Done(Result("NoRecipients", <<>>), gb.cache, gb.spawned, None)
        ELSE IF path_to_file # None /\ path_to_file[1].dir \notin dirset
          THEN Done(Result("FileNotFound", <<>>), gb.cache, gb.spawned, None)
        ELSE [r EXCEPT !.spawned = gb.spawned \o r.spawned]

\* lines 135-161
\*   ValueError('no recipients')   NoRecipients
\*   FileNotFoundError             FileNotFound
\*   ValueError('no public key')   NoPublicKey
encrypt(c, e, dirset, clear_text, list_of_recipients, path_to_file, gpg_home, out) ==
    IF list_of_recipients = <<>> THEN Done(Result("NoRecipients", <<>>), c, <<>>, None)
    ELSE IF path_to_file # None /\ path_to_file[1].dir \notin dirset
      THEN Done(Result("FileNotFound", <<>>), c, <<>>, None)
    ELSE encrypt_run(c, e, clear_text, list_of_recipients, path_to_file, gpg_home, out)

\* The gpg --decrypt process on a file, with the secret keys sec at hand: the
\* cleartext on stdout when the file is a ciphertext to one of them, otherwise
\* nothing on stdout and a diagnostic.
GpgDecrypt(files, file, sec) ==
    IF file \notin DOMAIN files
      THEN [stdout |-> <<>>, stderr |-> <<<<"cant_open", "no_such_file">>>>]
    ELSE IF ~IsCiphertext(files[file])
      THEN [stdout |-> <<>>, stderr |-> <<<<"no_valid_openpgp">>>>]
    ELSE IF \E i \in DOMAIN files[file].rcpts : files[file].rcpts[i] \in sec
      THEN [stdout |-> files[file].clear, stderr |-> <<>>]
    ELSE [stdout |-> <<>>, stderr |-> <<<<"no_secret_key">>>>]

\* the run that decrypts: the file is a ciphertext and a secret key is at hand
Faultless(files, file, sec) ==
    /\ file \in DOMAIN files /\ IsCiphertext(files[file])
    /\ \E i \in DOMAIN files[file].rcpts : files[file].rcpts[i] \in sec

\* The gpg --encrypt process, by the state of the public keys: "ok" prints the
\* ciphertext; "missing" fails with 'No public key' on its first line; "unusable"
\* fails with a warning line first and prints no ciphertext (as does a message the
\* code has no pattern for, such as 'Unusable public key').
PubStates == {"ok", "missing", "unusable"}

GpgEncrypt(clear, rcpts, pub) ==
    IF pub = "ok" THEN Ciphertext(clear, rcpts)
    ELSE IF pub = "missing" THEN Printed(<<<<"no_public_key">>>>, FALSE, <<>>, <<>>)
    ELSE Printed(<<<<"other">>, <<"no_public_key">>>>, FALSE, <<>>, <<>>)

---------------------------------------------------------------------------
(* The classification of decrypt as a function of the process output *)

Lines == SeqsUpTo(DecryptTokens, MaxTokens)

\* a diagnostic stream: any first line, then lines of one phrase each
DiagStreams ==
    {<<>>} \cup {<<l>> \o rest : l \in Lines,
                 rest \in SeqsUpTo({<<t>> : t \in DecryptTokens}, MaxLines - 1)}

InitClassify ==
    /\ inp \in [stdout : SampleTexts, stderr : DiagStreams, utf8 : BOOLEAN]
    /\ ret = NoRet
    /\ fs = <<>> /\ fs0 = <<>> /\ dirs = {} /\ env = <<>> /\ cache = "none"
    /\ log = <<>> /\ call = <<>> /\ stack = <<>> /\ status = "idle"
    /\ errors = 0 /\ nops = 0

DecryptClassify ==
    /\ ret.op = "none"
    /\ LET r == decrypt_result(inp, inp.utf8)
       IN  ret' = [NoRet EXCEPT !.op = "decrypt", !.kind = r.kind, !.val = r.val]
    /\ UNCHANGED <<fs, fs0, dirs, env, cache, log, call, stack, status, errors, nops, inp>>

NextClassify == DecryptClassify

SpecClassify == InitClassify /\ [][NextClassify]_vars

Contains(stream, tok) == \E k \in 1..Len(stream) : Has(stream[k], tok)

ContainsThen(stream, a, b) == \E k \in 1..Len(stream) : HasThen(stream[k], a, b)

\* the kind the documented priority order gives a diagnostic stream
DocumentedKind(stderr) ==
    IF ContainsThen(stderr, "cant_open", "no_such_file") THEN "FileNotFound"
    ELSE IF Contains(stderr, "cant_open") THEN "FileNotFound"
    ELSE IF Contains(stderr, "is_a_directory") THEN "NotAFile"
    ELSE IF Contains(stderr, "no_valid_openpgp") THEN "InvalidCiphertext"
    ELSE IF Contains(stderr, "no_secret_key") THEN "NoSecretKey"
    ELSE "UnknownBackendError"

\* C6 as stated: with no payload the diagnostic stream is classified by the first
\* match in the order FileNotFound (can't open ... No such file or directory),
\* FileNotFound (can't open), NotAFile, InvalidCiphertext, NoSecretKey, else
\* UnknownBackendError; a non-empty payload yields success.
C6_Documented ==
    ret.op = "decrypt" =>
        /\ inp.stdout # <<>> => ret.kind \in {"text", "bytes"}
        /\ inp.stdout = <<>> => ret.kind = DocumentedKind(inp.stderr)

\* C6 amended: with no payload, the FIRST LINE of the diagnostic stream decides, by
\* the first match in the order NoSecretKey, FileNotFound (can't open ... No such
\* file or directory), NotAFile, InvalidCiphertext, and UnknownBackendError when
\* that line matches none (a bare "can't open", or a phrase on a later line, is
\* UnknownBackendError); a non-empty payload is returned (as bytes, or decoded, or
\* as a decode error in text mode) whatever the diagnostic stream holds.
C6_FirstLineOrder ==
    ret.op = "decrypt" =>
        LET l == FirstLine(inp.stderr)
            fnf == HasThen(l, "cant_open", "no_such_file")
        IN  /\ (inp.stdout # <<>> /\ ~inp.utf8) =>
                    ret.kind = "bytes" /\ ret.val = inp.stdout
            /\ (inp.stdout # <<>> /\ inp.utf8) =>
                    \/ ret.kind = "text" /\ utf8_encode(ret.val) = inp.stdout
                    \/ ret.kind = "UnicodeDecodeError"
            /\ inp.stdout = <<>> =>
                    /\ Has(l, "no_secret_key") => ret.kind = "NoSecretKey"
                    /\ (fnf /\ ~Has(l, "no_secret_key")) => ret.kind = "FileNotFound"
                    /\ (Has(l, "is_a_directory") /\ ~fnf /\ ~Has(l, "no_secret_key"))
                           => ret.kind = "NotAFile"
                    /\ (Has(l, "no_valid_openpgp") /\ ~Has(l, "is_a_directory") /\ ~fnf
                          /\ ~Has(l, "no_secret_key")) => ret.kind = "InvalidCiphertext"
                    /\ (~Has(l, "no_valid_openpgp") /\ ~Has(l, "is_a_directory") /\ ~fnf
                          /\ ~Has(l, "no_secret_key")) => ret.kind = "UnknownBackendError"

\* a diagnostic naming two known phrases on its first line, and one with a known
\* phrase on its second line only, have been classified
C6_Witness ==
    /\ ret.op = "decrypt" /\ inp.stdout = <<>>
    /\ Has(FirstLine(inp.stderr), "no_valid_openpgp")
    /\ Has(FirstLine(inp.stderr), "no_secret_key")
    /\ ret.kind = "NoSecretKey"

---------------------------------------------------------------------------
(* The recipient file: write_gpg_id_file and get_recipients_from_gpg_id *)

\* An identifier is a sequence of characters holding no line terminator (a
\* fingerprint, a key id, a user id); the file is a sequence of characters, "NL"
\* the newline.  On this platform text mode writes "\n" as it is, and reading
\* translates only "\r", which no identifier holds.
IdChars == {"a", "b"}

Identifiers == SeqsUpTo(IdChars, MaxIdLen)

IdLists == SeqsUpTo(Identifiers, MaxIds)

IdPath == "gpg-id"

RECURSIVE Flatten(_)
Flatten(ss) == IF ss = <<>> THEN <<>> ELSE Head(ss) \o Flatten(Tail(ss))

\* lines 247-249: open(path, 'w') truncates, then '{key}\n' per identifier
write_gpg_id_file(old, list_of_gpg_ids) ==
    Flatten([i \in 1..Len(list_of_gpg_ids) |-> list_of_gpg_ids[i] \o <<"NL">>])

RECURSIVE readlines(_, _)
\* file.readlines(): the lines, each with its terminator; cur is the line begun
readlines(text, cur) ==
    IF text = <<>> THEN (IF cur = <<>> THEN <<>> ELSE <<cur>>)
    ELSE IF Head(text) = "NL" THEN <<cur \o <<"NL">>>> \o readlines(Tail(text), <<>>)
    ELSE readlines(Tail(text), cur \o <<Head(text)>>)

\* line.replace('\n', '')
StripNL(line) == SelectSeq(line, LAMBDA c : c # "NL")

\* lines 172-177 with blank lines dropped
get_recipients_skip_blank(text) ==
    LET ls == readlines(text, <<>>)
    IN  SelectSeq([i \in 1..Len(ls) |-> StripNL(ls[i])], LAMBDA l : l # <<>>)

\* lines 172-177: one entry per line of the file, the newline removed
get_recipients_from_gpg_id(text) ==
    LET ls == readlines(text, <<>>)
    IN  [i \in 1..Len(ls) |-> StripNL(ls[i])]

\* what the file may hold before the write (no file: the empty function)
OldIdFiles == {<<>>, <<"NL">>, <<"a", "NL", "b">>, <<"b", "NL">>}

InitIds ==
    /\ inp \in [ids : IdLists]
    /\ \/ fs = <<>>
       \/ \E old \in OldIdFiles : fs = [p \in {IdPath} |-> old]
    /\ fs0 = fs
    /\ ret = NoRet /\ status = "idle"
    /\ dirs = {} /\ env = <<>> /\ cache = "none" /\ log = <<>> /\ call = <<>>
    /\ stack = <<>> /\ errors = 0 /\ nops = 0

WriteIds ==
    /\ status = "idle"
    /\ fs' = [p \in {IdPath} |->
                 write_gpg_id_file(IF IdPath \in DOMAIN fs THEN fs[IdPath] ELSE <<>>,
                                   inp.ids)]
    /\ status' = "written"
    /\ ret' = [NoRet EXCEPT !.op = "write", !.wrote = TRUE]
    /\ UNCHANGED <<fs0, dirs, env, cache, log, call, stack, errors, nops, inp>>

\* open(path, 'r') raises FileNotFoundError when there is no file
ReadIds ==
    /\ ret.op # "read"
    /\ ret' = IF IdPath \in DOMAIN fs
                THEN [NoRet EXCEPT !.op = "read", !.kind = "list",
                                   !.val = get_recipients_from_gpg_id(fs[IdPath])]
                ELSE [NoRet EXCEPT !.op = "read", !.kind = "FileNotFound"]
    /\ UNCHANGED <<fs, fs0, dirs, env, cache, log, call, stack, status, errors, nops, inp>>

NextIds == WriteIds \/ ReadIds

SpecIds == InitIds /\ [][NextIds]_vars

\* C8: write_gpg_id_file(path, ids) followed by get_recipients_from_gpg_id(path)
\* returns ids: same length, same order, duplicates and empty identifiers kept,
\* whatever the file held before the write.
C8_WriteReadRoundTrip ==
    (ret.op = "read" /\ status = "written") => ret.kind = "list" /\ ret.val = inp.ids

\* a list with a duplicate has been written over a non-empty file and read back
C8_Witness ==
    /\ ret.op = "read" /\ status = "written"
    /\ Len(inp.ids) = 2 /\ inp.ids[1] = inp.ids[2]
    /\ IdPath \in DOMAIN fs0 /\ fs0[IdPath] # <<>>

---------------------------------------------------------------------------
(* Sequences of operations in one process *)

OpEnvs == {e \in [gpg : Answers, gpg2 : Answers] : e.gpg # "v1" => e.gpg2 = "missing"}

OpFile == Path(<<>>, NameA)

\* a destination whose directory does not exist
OpBadFile == Path(<<"x">>, NameA)

OpRcpts == {<<>>, <<"K1">>, <<"K1", "K3">>}

InitOps ==
    /\ env \in OpEnvs
    /\ cache = "none" /\ log = <<>> /\ nops = 0 /\ status = "idle"
    /\ dirs = {<<>>} /\ fs = <<>> /\ fs0 = <<>>
    /\ ret = NoRet /\ inp = <<>> /\ call = <<>> /\ stack = <<>>
    /\ errors = 0

\* the caller goes on after an exception; SystemExit ends the process
After(op, r, rcpts, utf8, clean) ==
    /\ cache' = r.cache
    /\ log' = log \o r.spawned
    /\ nops' = nops + 1
    /\ status' = IF r.res.kind = "SystemExit" THEN "exited" ELSE "idle"
    /\ ret' = [op |-> op, kind |-> r.res.kind, val |-> r.res.val, rcpts |-> rcpts,
               utf8 |-> utf8, nspawn |-> Len(r.spawned), wrote |-> r.write # None, clean |-> clean]
    /\ UNCHANGED <<fs0, dirs, env, call, stack, errors, inp>>

CanOp == status = "idle" /\ nops < MaxOps

OpResolve ==
    /\ CanOp
    /\ LET gb == get_binary(cache, env)
       IN  After("resolve", Done(Result(IF gb.out = "return" THEN gb.bin ELSE gb.kind, <<>>),
                                 gb.cache, gb.spawned, None), <<>>, FALSE, FALSE)
    /\ UNCHANGED fs

OpEncrypt ==
    /\ CanOp
    /\ \E text \in SampleTexts, rcpts \in OpRcpts,
          dest \in {None, Some(OpFile), Some(OpBadFile)}, home \in {None, Some("H")} :
         \E pub \in PubStates :
            LET r == encrypt(cache, env, dirs, text, rcpts, dest, home,
                             GpgEncrypt(text, rcpts, pub))
            IN  /\ After("encrypt", r, rcpts, FALSE, FALSE)
                /\ fs' = IF r.write = None THEN fs
                         ELSE [p \in DOMAIN fs \cup {dest[1]} |->
                                  IF p = dest[1] THEN r.write[1] ELSE fs[p]]

OpDecrypt ==
    /\ CanOp
    /\ \E utf8 \in BOOLEAN, sec \in {{}, {"K1"}} :
          LET r == decrypt(cache, env, OpFile, None, None, utf8,
                           GpgDecrypt(fs, OpFile, sec))
          IN  After("decrypt", r, <<>>, utf8,
                    r.res.kind # "SystemExit" /\ r.spawned # <<>>
                    /\ r.spawned[Len(r.spawned)].op = "decrypt"
                    /\ Faultless(fs, OpFile, sec))
    /\ UNCHANGED fs

\* lines 62-79: the key ids of the packets, or the error the diagnostics name
list_packets(c, e, file, out) ==
    LET gb == get_binary(c, e)
        sp == gb.spawned \o <<Proc("list-packets", gb.bin, None, <<>>, file, <<>>)>>
    IN  IF gb.out # "return" THEN Done(Result(gb.kind, <<>>), gb.cache, gb.spawned, None)
        ELSE IF re_match(out.stderr, "cant_open")
          THEN Done(Result("FileNotFound", <<>>), gb.cache, sp, None)
        ELSE IF re_match(out.stderr, "is_a_directory")
          THEN Done(Result("NotAFile", <<>>), gb.cache, sp, None)
        ELSE IF re_match(out.stderr, "no_valid_openpgp")
          THEN Done(Result("InvalidCiphertext", <<>>), gb.cache, sp, None)
        ELSE Done(Result("list", out.stdout), gb.cache, sp, None)

\* The gpg --list-packets process: one 'keyid' line per recipient of a ciphertext
ListPacketsOutputs(files, file) ==
    IF file \notin DOMAIN files
      THEN {[stdout |-> <<>>, stderr |-> <<<<"cant_open", "no_such_file">>>>]}
    ELSE IF IsCiphertext(files[file])
      THEN {[stdout |-> files[file].rcpts, stderr |-> <<>>]}
    ELSE {[stdout |-> <<>>, stderr |-> <<<<"no_valid_openpgp">>>>]}

OpListPackets ==
    /\ CanOp
    /\ \E out \in ListPacketsOutputs(fs, OpFile) :
          After("list_packets", list_packets(cache, env, OpFile, out), <<>>, FALSE, FALSE)
    /\ UNCHANGED fs

\* lines 189-207: the uid lines of the key listing
list_available_keys(c, e, uids) ==
    LET gb == get_binary(c, e)
    IN  IF gb.out # "return" THEN Done(Result(gb.kind, <<>>), gb.cache, gb.spawned, None)
        ELSE Done(Result("list", uids), gb.cache,
                  gb.spawned \o <<Proc("list-keys", gb.bin, None, <<>>, NoFile, <<>>)>>, None)

OpListKeys ==
    /\ CanOp
    /\ \E uids \in {<<>>, <<"K1">>} :
          After("list_available_keys", list_available_keys(cache, env, uids), <<>>, FALSE, FALSE)
    /\ UNCHANGED fs

\* lines 218-234: gpg --import runs when the key directory exists and holds files
import_gpg_keys(c, e, key_files) ==
    LET gb == get_binary(c, e)
    IN  IF ~key_files THEN Done(Result("none", <<>>), c, <<>>, None)
        ELSE IF gb.out # "return" THEN Done(Result(gb.kind, <<>>), gb.cache, gb.spawned, None)
        ELSE Done(Result("none", <<>>), gb.cache,
                  gb.spawned \o <<Proc("import", gb.bin, None, <<>>, NoFile, <<>>)>>, None)

OpImport ==
    /\ CanOp
    /\ \E key_files \in BOOLEAN :
          After("import", import_gpg_keys(cache, env, key_files), <<>>, FALSE, FALSE)
    /\ UNCHANGED fs

NextOps == OpResolve \/ OpEncrypt \/ OpDecrypt \/ OpListPackets \/ OpListKeys \/ OpImport

SpecOps == InitOps /\ [][NextOps]_vars

\* C4: encrypt given no recipients raises NoRecipients, spawns no process (neither
\* gpg --encrypt nor the version query, the binary resolved or not), leaves the
\* cache as it was and writes nothing.
C4_NoRecipientsNoProcess ==
    [][(nops' = nops + 1 /\ ret'.op = "encrypt" /\ ret'.rcpts = <<>>) =>
          (ret'.kind = "NoRecipients" /\ log' = log /\ cache' = cache /\ fs' = fs)]_vars

\* encrypt was given no recipients and a destination while the binary, which
\* would resolve, had not been resolved
C4_Witness ==
    /\ ret.op = "encrypt" /\ ret.rcpts = <<>> /\ ret.kind = "NoRecipients"
    /\ cache = "none" /\ env.gpg = "v2" /\ nops = 1

\* C5 as stated: decrypt of a file that encrypt wrote for a non-empty recipient
\* list, by a gpg process that holds a secret key and reports nothing, returns the
\* cleartext given to encrypt (in text mode: its decoding, for a cleartext that
\* is UTF-8), the empty cleartext included.
C5_RoundTrip ==
    (ret.op = "decrypt" /\ ret.clean
       /\ (ret.utf8 => utf8_decode(fs[OpFile].clear).ok)) =>
        \/ ~ret.utf8 /\ ret.kind = "bytes" /\ ret.val = fs[OpFile].clear
        \/ ret.utf8 /\ ret.kind = "text" /\ utf8_encode(ret.val) = fs[OpFile].clear

\* C7 as stated: over any sequence of operations the version query of gpg runs at
\* most once.
C7_VersionQueryAtMostOnce ==
    Cardinality({i \in DOMAIN log : log[i] = VersionQuery("gpg")}) <= 1

---------------------------------------------------------------------------
(* recursive_reencrypt over a directory tree *)

\* The tree: below the root a chain of directories under "s" and one under "t",
\* each up to MaxDepth deep.  Every directory holds a.gpg, the root b.gpg and
\* .gpg-id as well, and any other directory may hold a .gpg-id.
Chain(x, k) == [i \in 1..k |-> IF i = 1 THEN x ELSE "u"]

TreeDirs(ds, dt) ==
    {<<>>} \cup {Chain("s", k) : k \in 1..ds} \cup {Chain("t", k) : k \in 1..dt}

\* the order in which a directory lists its entries
ChildNames == <<"s", "t", "u">>

FileOrder == <<IdName, NameB, NameA>>

\* file[-4:]
Last4(name) == IF Len(name) <= 4 THEN name ELSE SubSeq(name, Len(name) - 3, Len(name))

Subdirs(D, d) ==
    LET names == SelectSeq(ChildNames, LAMBDA n : Append(d, n) \in D)
    IN  [i \in 1..Len(names) |-> Append(d, names[i])]

Files(files, d) == SelectSeq(FileOrder, LAMBDA n : Path(d, n) \in DOMAIN files)

RECURSIVE walk(_, _)
\* os.walk(top), top-down: the directories in the order they are yielded; todo is
\* the directories still to visit, top first
walk(D, todo) ==
    IF todo = <<>> THEN <<>>
    ELSE <<Head(todo)>> \o walk(D, Subdirs(D, Head(todo)) \o Tail(todo))

\* path.exists(path.join(root, '.gpg-id'))
HasGpgId(files, d) == Path(d, IdName) \in DOMAIN files

\* a frame of recursive_reencrypt: its arguments, the directories os.walk has
\* still to yield, the files the inner loop has still to visit, where it stands
\* ("walk": at the outer for, "files": at the inner for, "enc": between decrypt
\* and encrypt), and the cleartext decrypt returned
Frame(folder, gpg_home, additional_parameter) ==
    [folder |-> folder, home |-> gpg_home, extra |-> additional_parameter,
     walk |-> walk(dirs, <<folder>>), files |-> <<>>, pc |-> "walk", clear |-> <<>>]

\* line 279 with the caller's gpg_home and additional_parameter passed on
RecursiveCallForwarding(parent, root) == Frame(root, parent.home, parent.extra)

\* line 279: recursive_reencrypt(root, list_of_keys)
RecursiveCall(parent, root) == Frame(root, None, None)

Top == stack[Len(stack)]

SetTop(f) == [stack EXCEPT ![Len(stack)] = f]

\* an exception caught inside the loop, the next file taken up
PropagateSkipFile(stk) ==
    [stk EXCEPT ![Len(stk)] = [@ EXCEPT !.files = Tail(@), !.pc = "files", !.clear = <<>>]]

\* lines 266-279 hold no try: an exception leaves every frame
Propagate(stk) == <<>>

\* the secret keys of a keyring, by gpg_home
SecretKeys(home) == IF home = None THEN env.sec_default ELSE env.sec_home

PlainFile == Printed(<<>>, FALSE, <<>>, <<>>)

OldRecipients(ids, d) ==
    IF \E k \in 1..Len(d) : SubSeq(d, 1, k) \in ids THEN <<"K2">> ELSE <<"K1">>

TreeFiles(D, ids, txt) ==
    [p \in {Path(d, NameA) : d \in D} \cup {Path(<<>>, NameB)} \cup
           {Path(d, IdName) : d \in ids \cup {<<>>}} |->
        IF p.name = IdName THEN PlainFile
        ELSE IF p.name = NameB THEN Ciphertext(<<65, 65>>, <<"K1">>)
        ELSE Ciphertext(txt, OldRecipients(ids, p.dir))]

TreeCalls ==
    {[root |-> <<>>, rcpts |-> <<"K1", "K3">>, home |-> None, extra |-> None],
     [root |-> <<>>, rcpts |-> <<"K3">>, home |-> Some("H"), extra |-> Some(<<"--batch">>)],
     [root |-> <<>>, rcpts |-> <<>>, home |-> Some("H"), extra |-> None]}

Env(gpg, gpg2, sec_default, sec_home, pub) ==
    [gpg |-> gpg, gpg2 |-> gpg2, sec_default |-> sec_default, sec_home |-> sec_home,
     pub |-> pub]

\* the installations tried: the usual one; secret keys in the given home only;
\* a public key gpg finds missing, or unusable; gpg 1 beside gpg2, every secret
\* key at hand; gpg 1 alone
TreeEnvs ==
    {Env("v2", "missing", {"K1"}, {"K1"}, "ok"),
     Env("v2", "missing", {}, {"K1"}, "ok"),
     Env("v2", "missing", {"K1"}, {"K1"}, "missing"),
     Env("v2", "missing", {"K1"}, {"K1"}, "unusable"),
     Env("v1", "v2", {"K1", "K2", "K3"}, {"K1", "K2", "K3"}, "ok"),
     Env("v1", "v1", {"K1"}, {"K1"}, "ok")}

Scenarios ==
    {[txt |-> t, call |-> c, env |-> Env("v2", "missing", {"K1"}, {"K1"}, "ok")] :
        t \in SampleTexts, c \in TreeCalls}
    \cup {[txt |-> <<195, 169>>, call |-> c, env |-> e] : c \in TreeCalls, e \in TreeEnvs}

Init ==
    /\ \E ds \in 0..MaxDepth, dt \in 0..MaxDepth :
         \E ids \in SUBSET (TreeDirs(ds, dt) \ {<<>>}), sc \in Scenarios :
            /\ dirs = TreeDirs(ds, dt)
            /\ fs = TreeFiles(dirs, ids, sc.txt)
            /\ call = sc.call
            /\ env = sc.env
    /\ fs0 = fs
    /\ cache = "none" /\ log = <<>> /\ stack = <<>> /\ status = "idle"
    /\ errors = 0 /\ nops = 0 /\ inp = <<>> /\ ret = NoRet

\* the call recursive_reencrypt(root, list_of_keys, gpg_home, additional_parameter)
Call ==
    /\ status = "idle"
    /\ stack' = <<Frame(call.root, call.home, call.extra)>>
    /\ status' = "running"
    /\ UNCHANGED <<fs, fs0, dirs, env, cache, log, call, errors, nops, inp, ret>>

Running(pc) == status = "running" /\ stack # <<>> /\ Top.pc = pc

\* line 267, true: the walk yields the folder itself and its files
WalkFolder ==
    /\ Running("walk") /\ Top.walk # <<>> /\ Head(Top.walk) = Top.folder
    /\ stack' = SetTop([Top EXCEPT !.walk = Tail(@), !.files = Files(fs, Top.folder),
                                   !.pc = "files"])
    /\ UNCHANGED <<fs, fs0, dirs, env, cache, log, call, status, errors, nops, inp, ret>>

\* lines 277-279: any other directory of the walk without a .gpg-id is re-encrypted
\* by a call of its own
Recurse ==
    /\ Running("walk") /\ Top.walk # <<>> /\ Head(Top.walk) # Top.folder
    /\ ~HasGpgId(fs, Head(Top.walk))
    /\ stack' = SetTop([Top EXCEPT !.walk = Tail(@)]) \o <<RecursiveCall(Top, Head(Top.walk))>>
    /\ UNCHANGED <<fs, fs0, dirs, env, cache, log, call, status, errors, nops, inp, ret>>

\* line 278, false: a directory with a .gpg-id is passed over
SkipGpgIdDir ==
    /\ Running("walk") /\ Top.walk # <<>> /\ Head(Top.walk) # Top.folder
    /\ HasGpgId(fs, Head(Top.walk))
    /\ stack' = SetTop([Top EXCEPT !.walk = Tail(@)])
    /\ UNCHANGED <<fs, fs0, dirs, env, cache, log, call, status, errors, nops, inp, ret>>

\* the walk is exhausted: the call returns
Return ==
    /\ Running("walk") /\ Top.walk = <<>>
    /\ stack' = SubSeq(stack, 1, Len(stack) - 1)
    /\ status' = IF Len(stack) = 1 THEN "returned" ELSE "running"
    /\ ret' = IF Len(stack) = 1 THEN [NoRet EXCEPT !.op = "reencrypt"] ELSE ret
    /\ UNCHANGED <<fs, fs0, dirs, env, cache, log, call, errors, nops, inp>>

\* line 269, false
SkipFile ==
    /\ Running("files") /\ Top.files # <<>> /\ Last4(Head(Top.files)) # DotGpg
    /\ stack' = SetTop([Top EXCEPT !.files = Tail(@)])
    /\ UNCHANGED <<fs, fs0, dirs, env, cache, log, call, status, errors, nops, inp, ret>>

\* the inner for is exhausted
FilesDone ==
    /\ Running("files") /\ Top.files = <<>>
    /\ stack' = SetTop([Top EXCEPT !.pc = "walk"])
    /\ UNCHANGED <<fs, fs0, dirs, env, cache, log, call, status, errors, nops, inp, ret>>

\* decrypt or encrypt raised: the exception travels up
Raise(res) ==
    /\ errors' = errors + 1
    /\ stack' = Propagate(stack)
    /\ status' = IF stack' = <<>> THEN "raised" ELSE "running"
    /\ ret' = [NoRet EXCEPT !.op = "reencrypt", !.kind = res.kind]

\* lines 270-272
DecryptFile ==
    /\ Running("files") /\ Top.files # <<>> /\ Last4(Head(Top.files)) = DotGpg
    /\ LET file == Path(Top.folder, Head(Top.files))
           r == decrypt(cache, env, file, Top.home, Top.extra, TRUE,
                        GpgDecrypt(fs, file, SecretKeys(Top.home)))
       IN  /\ cache' = r.cache
           /\ log' = log \o r.spawned
           /\ IF IsError(r.res) THEN Raise(r.res)
              ELSE /\ stack' = SetTop([Top EXCEPT !.pc = "enc", !.clear = r.res.val])
                   /\ UNCHANGED <<status, errors, ret>>
    /\ UNCHANGED <<fs, fs0, dirs, env, call, nops, inp>>

\* lines 273-276
EncryptFile ==
    /\ Running("enc")
    /\ LET file == Path(Top.folder, Head(Top.files))
           bytes == utf8_encode(Top.clear)
           r == encrypt(cache, env, dirs, bytes, call.rcpts, Some(file), Top.home,
                        GpgEncrypt(bytes, call.rcpts, env.pub))
       IN  /\ cache' = r.cache
           /\ log' = log \o r.spawned
           /\ IF IsError(r.res) THEN Raise(r.res) /\ fs' = fs
              ELSE /\ fs' = [fs EXCEPT ![file] = r.write[1]]
                   /\ stack' = SetTop([Top EXCEPT !.files = Tail(@), !.pc = "files",
                                                  !.clear = <<>>])
                   /\ UNCHANGED <<status, errors, ret>>
    /\ UNCHANGED <<fs0, dirs, env, call, nops, inp>>

Next ==
    \/ Call \/ WalkFolder \/ Recurse \/ SkipGpgIdDir \/ Return
    \/ SkipFile \/ FilesDone \/ DecryptFile \/ EncryptFile

Spec == Init /\ [][Next]_vars

---------------------------------------------------------------------------
(* The claims about recursive_reencrypt *)

IsGpgFile(p) == Last4(p.name) = DotGpg

IdDirs == {d \in dirs \ {<<>>} : HasGpgId(fs0, d)}

\* d is a directory with a .gpg-id below the root, or lies beneath one
BehindGpgId(d) == \E k \in 1..Len(d) : SubSeq(d, 1, k) \in IdDirs

Spawned(op, p) == {i \in DOMAIN log : log[i].op = op /\ log[i].file = p}

\* C1 as stated: no .gpg file in a subdirectory that owns a .gpg-id, or at any
\* depth beneath one, is decrypted, re-encrypted or overwritten.
C1_BoundaryUntouched ==
    \A p \in DOMAIN fs :
        (IsGpgFile(p) /\ BehindGpgId(p.dir)) =>
            /\ fs[p] = fs0[p]
            /\ Spawned("decrypt", p) = {} /\ Spawned("encrypt", p) = {}

\* C2 as stated: when the call has returned, every .gpg file of the root and of
\* the directories reached through directories without a .gpg-id holds a
\* ciphertext of its former cleartext to exactly the new recipients.
C2_ReencryptedToNewRecipients ==
    status = "returned" =>
        \A p \in DOMAIN fs :
            (IsGpgFile(p) /\ ~BehindGpgId(p.dir)) =>
                /\ IsCiphertext(fs[p])
                /\ fs[p].clear = fs0[p].clear
                /\ fs[p].rcpts = call.rcpts

C9_HomeNotForwarded ==
    \A i \in DOMAIN log :
        log[i].op \in {"decrypt", "encrypt"} =>
            /\ log[i].file.dir = call.root =>
                  /\ log[i].home = call.home
                  /\ log[i].op = "decrypt" =>
                        log[i].extra = (IF call.extra = None THEN <<>> ELSE call.extra[1])
            /\ log[i].file.dir # call.root => (log[i].home = None /\ log[i].extra = <<>>)
            /\ log[i].op = "encrypt" => (log[i].rcpts = call.rcpts /\ log[i].extra = <<>>)

\* a call with a gpg_home and an additional parameter has returned after
\* re-encrypting files of the root, of a subdirectory and of one beneath it
C9_Witness ==
    /\ status = "returned" /\ call.home # None /\ call.extra # None
    /\ Spawned("encrypt", Path(<<>>, NameA)) # {}
    /\ Spawned("encrypt", Path(<<"s">>, NameA)) # {}
    /\ Spawned("encrypt", Path(<<"s", "u">>, NameA)) # {}

\* C10 as stated: when the call has returned, every .gpg file in its scope has
\* been decrypted once and overwritten once.
C10_EachFileOnce ==
    status = "returned" =>
        \A p \in DOMAIN fs :
            (IsGpgFile(p) /\ ~BehindGpgId(p.dir)) =>
                /\ Cardinality(Spawned("decrypt", p)) = 1
                /\ Cardinality(Spawned("encrypt", p)) = 1

====
